---------------------------- MODULE Spec2Model ----------------------------
(***************************************************************************)
(* Typing speed test (typing_test.py, score_manager.py, ui.py).            *)
(*                                                                         *)
(* Strings are sequences of one-character strings.  Times are integers in  *)
(* milliseconds (time.time() is seconds as a float; after() takes          *)
(* milliseconds).  Floats are exact rationals [num, den].  Python's None   *)
(* is the integer None for the numeric fields, the empty tuple for the     *)
(* labels and locals.                                                      *)
(***************************************************************************)
EXTENDS Integers, Sequences, FiniteSets, TLC

VARIABLES
    start_time,          \* TypingTest.start_time
    end_time,            \* TypingTest.end_time
    timer_update_id,     \* TypingTest.timer_update_id
    test_ended,          \* TypingTest.test_ended
    remaining_time,      \* TypingTest.remaining_time
    text_display,        \* content of the tk.Text widget (display_text_widget)
    input_text,          \* content of the tk.Entry widget (input_field_widget)
    input_state,         \* state of the tk.Entry widget: "normal" | "disabled"
    return_bound,        \* whether <Return> is bound to end_test on the Entry
    speed_label,         \* value shown by speed_label_widget, <<>> for "-"
    accuracy_label,      \* value shown by accuracy_label_widget, <<>> for "-"
    timer_label,         \* text of timer_label_widget
    calculated_speed,    \* local of end(): <<>> until calculate_speed returned
    calculated_accuracy, \* local of end(): <<>> until calculate_accuracy returned
    pending,             \* Tk's after() queue: set of [id, kind, due]
    nextId,              \* Tk's counter for after identifiers
    now,                 \* the clock, in milliseconds
    high_scores,         \* ScoreManager.high_scores
    stored,              \* the file at ScoreManager.filepath
    outcome,             \* how the last handler ended
    op,                  \* the last handler that ran
    prompted,            \* times end() reached the name prompt since the last start
    added,               \* add_score calls made by end() since the last start
    starts,              \* successful start_test calls so far
    adds,                \* add_score calls so far
    text_manager,        \* whether TypingTestUI.text_manager is set
    main_pc,             \* where main() is: "set_manager" | "initialize" | "mainloop"
    threads,             \* the threading.Thread objects started, in order
    status_label,        \* text of TypingTestUI.status_label
    text_state,          \* state of the tk.Text widget: "normal" | "disabled"
    mutated_by,          \* the thread that made the last call on a widget
    start_text,          \* local text of start_test: the text the run started with
    scored_text          \* local original_text of end(): <<>> until end() read it

vars == <<start_time, end_time, timer_update_id, test_ended, remaining_time,
          text_display, input_text, input_state, return_bound, speed_label,
          accuracy_label, timer_label, calculated_speed, calculated_accuracy,
          pending, nextId, now, high_scores, stored, outcome, op, prompted,
          added, starts, adds, text_manager, main_pc, threads, status_label,
          text_state, mutated_by, start_text, scored_text>>

---------------------------------------------------------------------------
(* Bounds of the model *)

MaxLen == 3
MaxStarts == 2
MaxStartTime == 1000
ClockStep == 1000
MaxAdds == 2
MaxEmptyNames == 1

(* Program constants *)

TestSeconds == 60
DeadlineMs == 60000
TickMs == 1000
TopN == 10
SpeedFloorSeconds == 1
SecondsPerMinute == 60
Percent == 100
EndSpeedArgs == 2
CalculateSpeedParams == 1

None == -1

Alphabet == {"a", "b", " "}
Whitespace == {" "}
Texts == UNION {[1..n -> Alphabet] : n \in 0..MaxLen}
Names == {"Alice", "Bob"}

Max(a, b) == IF a >= b THEN a ELSE b
Min(a, b) == IF a <= b THEN a ELSE b

(* Exact rationals in lowest terms standing for Python floats *)
Abs(a) == IF a < 0 THEN 0 - a ELSE a

RECURSIVE Gcd(_, _)
Gcd(a, b) == IF b = 0 THEN a ELSE Gcd(b, a % b)

Rat(n, d) ==
    LET g == Gcd(Abs(n), Abs(d))
    IN  IF g = 0 THEN [num |-> n, den |-> d]
        ELSE [num |-> n \div g, den |-> d \div g]
RatLeq(p, q) == p.num * q.den <= q.num * p.den

---------------------------------------------------------------------------
(* str.strip(), str.split(), zip() *)

RECURSIVE lstrip(_)
lstrip(t) ==
    IF t # <<>> /\ Head(t) \in Whitespace THEN lstrip(Tail(t)) ELSE t

RECURSIVE rstrip(_)
rstrip(t) ==
    IF t # <<>> /\ t[Len(t)] \in Whitespace
    THEN rstrip(SubSeq(t, 1, Len(t) - 1))
    ELSE t

strip(t) == rstrip(lstrip(t))

(* len(t.split()): the number of maximal runs of non-whitespace *)
RECURSIVE split_len(_, _)
split_len(t, inWord) ==
    IF t = <<>> THEN 0
    ELSE IF Head(t) \in Whitespace THEN split_len(Tail(t), FALSE)
    ELSE (IF inWord THEN 0 ELSE 1) + split_len(Tail(t), TRUE)

(* sum(a == b for a, b in zip(typed_text, original_text)) *)
RECURSIVE zip_matches(_, _)
zip_matches(typed_text, original_text) ==
    IF typed_text = <<>> \/ original_text = <<>> THEN 0
    ELSE (IF Head(typed_text) = Head(original_text) THEN 1 ELSE 0)
         + zip_matches(Tail(typed_text), Tail(original_text))

---------------------------------------------------------------------------
(* The objects' fields as one record, so that a handler is a function from *)
(* the state before it to the state after it.                              *)

Self ==
    [start_time |-> start_time, end_time |-> end_time,
     timer_update_id |-> timer_update_id, test_ended |-> test_ended,
     remaining_time |-> remaining_time, text_display |-> text_display,
     input_text |-> input_text, input_state |-> input_state,
     return_bound |-> return_bound, speed_label |-> speed_label,
     accuracy_label |-> accuracy_label, timer_label |-> timer_label,
     calculated_speed |-> calculated_speed,
     calculated_accuracy |-> calculated_accuracy,
     pending |-> pending, nextId |-> nextId,
     high_scores |-> high_scores, stored |-> stored, outcome |-> outcome,
     prompted |-> prompted, added |-> added, starts |-> starts, adds |-> adds,
     text_manager |-> text_manager, main_pc |-> main_pc, threads |-> threads,
     status_label |-> status_label, text_state |-> text_state,
     mutated_by |-> mutated_by, start_text |-> start_text,
     scored_text |-> scored_text]

Commit(s) ==
    /\ start_time' = s.start_time
    /\ end_time' = s.end_time
    /\ timer_update_id' = s.timer_update_id
    /\ test_ended' = s.test_ended
    /\ remaining_time' = s.remaining_time
    /\ text_display' = s.text_display
    /\ input_text' = s.input_text
    /\ input_state' = s.input_state
    /\ return_bound' = s.return_bound
    /\ speed_label' = s.speed_label
    /\ accuracy_label' = s.accuracy_label
    /\ timer_label' = s.timer_label
    /\ calculated_speed' = s.calculated_speed
    /\ calculated_accuracy' = s.calculated_accuracy
    /\ pending' = s.pending
    /\ nextId' = s.nextId
    /\ high_scores' = s.high_scores
    /\ stored' = s.stored
    /\ outcome' = s.outcome
    /\ prompted' = s.prompted
    /\ added' = s.added
    /\ starts' = s.starts
    /\ adds' = s.adds
    /\ text_manager' = s.text_manager
    /\ main_pc' = s.main_pc
    /\ threads' = s.threads
    /\ status_label' = s.status_label
    /\ text_state' = s.text_state
    /\ mutated_by' = s.mutated_by
    /\ start_text' = s.start_text
    /\ scored_text' = s.scored_text

(* widget.after(ms, callback): queue the callback, return its identifier *)
after(s, ms, kind) ==
    [s EXCEPT !.pending = @ \cup {[id |-> s.nextId, kind |-> kind, due |-> now + ms]},
              !.nextId = @ + 1]

(* widget.after_cancel(id) *)
after_cancel(s, id) ==
    [s EXCEPT !.pending = {cb \in @ : cb.id # id}]

---------------------------------------------------------------------------
(* ScoreManager *)

FileMissing == [kind |-> "missing", data |-> <<>>]
FileCorrupt == [kind |-> "corrupt", data |-> <<>>]
JsonFile(scores) == [kind |-> "json", data |-> scores]

FileUnreadable == [kind |-> "unreadable", data |-> <<>>]

(* What open() and json.load() raise on the file *)
ReadError(file) ==
    CASE file.kind = "missing" -> "FileNotFoundError"
      [] file.kind = "corrupt" -> "JSONDecodeError"
      [] file.kind = "unreadable" -> "PermissionError"
      [] OTHER -> "none"

(* load_scores without its last clause, except Exception *)
try_load_scores_two_clauses(file) ==
    LET e == ReadError(file)
    IN  IF e = "none" THEN [ret |-> file.data, raised |-> "none"]
        ELSE IF e = "FileNotFoundError" THEN [ret |-> <<>>, raised |-> "none"]
        ELSE IF e = "JSONDecodeError" THEN [ret |-> <<>>, raised |-> "none"]
        ELSE [ret |-> <<>>, raised |-> e]

(* load_scores: what it returns, and what it lets escape *)
try_load_scores(file) ==
    LET e == ReadError(file)
    IN  IF e = "none" THEN [ret |-> file.data, raised |-> "none"]
        ELSE IF e = "FileNotFoundError" THEN [ret |-> <<>>, raised |-> "none"]
        ELSE IF e = "JSONDecodeError" THEN [ret |-> <<>>, raised |-> "none"]
        ELSE [ret |-> <<>>, raised |-> "none"]

load_scores(file) == try_load_scores(file).ret

SaveResults == {"ok", "open_failed", "write_failed"}

(* save_scores without its try *)
save_scores_unhandled(s, result) ==
    CASE result = "ok" -> [s EXCEPT !.stored = JsonFile(s.high_scores),
                                    !.outcome = "ok"]
      [] result = "open_failed" -> [s EXCEPT !.outcome = "OSError"]
      [] OTHER -> [s EXCEPT !.stored = FileCorrupt, !.outcome = "OSError"]

(* open(filepath, 'w') fails and leaves the file, or json.dump fails and   *)
(* leaves it cut short; either way the exception is printed.               *)
save_scores(s, result) ==
    CASE result = "ok" -> [s EXCEPT !.stored = JsonFile(s.high_scores),
                                    !.outcome = "ok"]
      [] result = "open_failed" -> [s EXCEPT !.outcome = "save_failed"]
      [] OTHER -> [s EXCEPT !.stored = FileCorrupt, !.outcome = "save_failed"]

(* list.sort(key=lambda x: x['score'], reverse=True): stable *)
RECURSIVE insert_desc(_, _)
insert_desc(sorted, r) ==
    IF sorted = <<>> THEN <<r>>
    ELSE IF RatLeq(r.score, Head(sorted).score)
         THEN <<Head(sorted)>> \o insert_desc(Tail(sorted), r)
         ELSE <<r>> \o sorted

RECURSIVE sort_desc(_)
sort_desc(scores) ==
    IF scores = <<>> THEN <<>>
    ELSE insert_desc(sort_desc(SubSeq(scores, 1, Len(scores) - 1)),
                     scores[Len(scores)])

Today == now \div 86400000

(* add_score without its sort *)
new_high_scores_unsorted(scores, name, score, accuracy) ==
    LET new_score == [name |-> name, score |-> score, accuracy |-> accuracy,
                      date |-> Today]
        appended == Append(scores, new_score)
    IN  SubSeq(appended, 1, Min(TopN, Len(appended)))

(* add_score cutting to ten before it sorts *)
new_high_scores_cut_first(scores, name, score, accuracy) ==
    LET new_score == [name |-> name, score |-> score, accuracy |-> accuracy,
                      date |-> Today]
        appended == Append(scores, new_score)
    IN  sort_desc(SubSeq(appended, 1, Min(TopN, Len(appended))))

new_high_scores(scores, name, score, accuracy) ==
    LET new_score == [name |-> name, score |-> score, accuracy |-> accuracy,
                      date |-> Today]
        sorted == sort_desc(Append(scores, new_score))
    IN  SubSeq(sorted, 1, Min(TopN, Len(sorted)))

add_score(s, name, score, accuracy, save_result) ==
    save_scores([s EXCEPT !.high_scores = new_high_scores(@, name, score, accuracy),
                          !.adds = @ + 1],
                save_result)

get_top_scores(s) == s.high_scores

---------------------------------------------------------------------------
(* TypingTest: scoring *)

(* calculate_speed without the floor of one second *)
wpm_no_floor(typed_text, started, ended) ==
    LET elapsed_ms == ended - started
        elapsed_time == Rat(elapsed_ms, 1000)
        elapsed_minutes == Rat(elapsed_time.num, elapsed_time.den * SecondsPerMinute)
        word_count == split_len(typed_text, FALSE)
    IN  Rat(word_count * elapsed_minutes.den, elapsed_minutes.num)

wpm(typed_text, started, ended) ==
    LET elapsed_ms == Max(ended - started, SpeedFloorSeconds * 1000)
        elapsed_time == Rat(elapsed_ms, 1000)
        elapsed_minutes == Rat(elapsed_time.num, elapsed_time.den * SecondsPerMinute)
        word_count == split_len(typed_text, FALSE)
    IN  Rat(word_count * elapsed_minutes.den, elapsed_minutes.num)

calculate_speed(s, typed_text) ==
    LET v == wpm(typed_text, s.start_time, s.end_time)
    IN  [s EXCEPT !.speed_label = <<v>>, !.calculated_speed = <<v>>]

(* the matches divided by the length of what was typed *)
accuracy_over_typed(typed_text, original_text) ==
    Rat(zip_matches(typed_text, original_text) * Percent, Len(typed_text))

accuracy_of(typed_text, original_text) ==
    Rat(zip_matches(typed_text, original_text) * Percent, Len(original_text))

(* calculate_accuracy without the check for an empty original *)
calculate_accuracy_unguarded(s, typed_text, original_text) ==
    LET v == accuracy_of(typed_text, original_text)
    IN  [s EXCEPT !.accuracy_label = <<v>>, !.calculated_accuracy = <<v>>]

calculate_accuracy(s, typed_text, original_text) ==
    IF original_text = <<>>
    THEN [s EXCEPT !.calculated_accuracy = <<Rat(0, 1)>>]
    ELSE LET v == accuracy_of(typed_text, original_text)
         IN  [s EXCEPT !.accuracy_label = <<v>>, !.calculated_accuracy = <<v>>]

---------------------------------------------------------------------------
(* TypingTest: the session *)

(* What simpledialog.askstring returns: a name, "" or None (Cancelled) *)
Cancelled == "<None>"
PromptReplies ==
    {e \o <<f>> : e \in UNION {[1..n -> {""}] : n \in 0..MaxEmptyNames},
                  f \in Names \cup {Cancelled}}

(* What the environment answers while a handler runs *)
EndInputs == [replies : PromptReplies, save : SaveResults]

(* while not name: name = askstring(...); if name is None: return *)
RECURSIVE ask_name(_)
ask_name(replies) ==
    IF Head(replies) = "" /\ Len(replies) > 1
    THEN ask_name(Tail(replies))
    ELSE Head(replies)

TimeLabel(n) == <<"Time", n>>
TimesUp == <<"Time's up!">>

(* end() from the prompt on (lines 96-116) *)
end_record(s, inp) ==
    LET name == ask_name(inp.replies)
        s1 == [s EXCEPT !.prompted = @ + 1]
    IN  IF name = Cancelled
        THEN [s1 EXCEPT !.outcome = "ok"]
        ELSE LET s2 == add_score([s1 EXCEPT !.added = @ + 1], name,
                                 s1.calculated_speed[1],
                                 s1.calculated_accuracy[1], inp.save)
                 s3 == [s2 EXCEPT !.input_text = <<>>,
                                  !.input_state = "disabled",
                                  !.remaining_time = TestSeconds,
                                  !.timer_label = TimeLabel(TestSeconds)]
             IN  [after_cancel(s3, s3.timer_update_id) EXCEPT !.outcome = "ok"]

(* self.calculate_speed(typed_text, original_text) against                 *)
(* def calculate_speed(self, typed_text): a call with the wrong number of  *)
(* arguments raises TypeError before the body runs.                        *)
end_scoring(s) ==
    LET typed_text == s.input_text
        s1 == [s EXCEPT !.scored_text = <<strip(s.text_display)>>]
    IN  IF EndSpeedArgs # CalculateSpeedParams
        THEN [s1 EXCEPT !.outcome = "TypeError"]
        ELSE calculate_accuracy(calculate_speed(s1, typed_text),
                                typed_text, s1.scored_text[1])

(* end() without self.test_ended = True *)
end_flag_unset(s) ==
    IF s.test_ended
    THEN {[s EXCEPT !.outcome = "noop"]}
    ELSE LET s1 == end_scoring([s EXCEPT !.end_time = now, !.outcome = "ok"])
         IN  IF s1.outcome = "TypeError"
             THEN {s1}
             ELSE {end_record(s1, inp) : inp \in EndInputs}

(* end() without its check of self.test_ended *)
end_unguarded(s) ==
    LET s1 == end_scoring([s EXCEPT !.test_ended = TRUE,
                                    !.end_time = now,
                                    !.outcome = "ok"])
    IN  IF s1.outcome = "TypeError"
        THEN {s1}
        ELSE {end_record(s1, inp) : inp \in EndInputs}

(* A handler that asks the environment (the name prompt, the file system)  *)
(* has one result per answer: the handlers below give the set of states    *)
(* they can end in.                                                        *)
end(s) ==
    IF s.test_ended
    THEN {[s EXCEPT !.outcome = "noop"]}
    ELSE LET s1 == end_scoring([s EXCEPT !.test_ended = TRUE,
                                         !.end_time = now,
                                         !.outcome = "ok"])
         IN  IF s1.outcome = "TypeError"
             THEN {s1}
             ELSE {end_record(s1, inp) : inp \in EndInputs}

end_test(s) == end(s)

end_test_programmatically(s) == end(s)

(* update_timer counting down first and ending when that gives 0 *)
update_timer_end_at_zero(s) ==
    LET s1 == [s EXCEPT !.timer_label = TimeLabel(s.remaining_time),
                        !.remaining_time = @ - 1]
    IN  IF s1.remaining_time <= 0
        THEN end_test_programmatically([s1 EXCEPT !.timer_label = TimesUp])
        ELSE {[after(s1, TickMs, "tick") EXCEPT !.timer_update_id = s1.nextId,
                                                !.outcome = "ok"]}

(* update_timer with < for <= in its check *)
update_timer_below_zero(s) ==
    IF s.remaining_time < 0
    THEN end_test_programmatically([s EXCEPT !.timer_label = TimesUp])
    ELSE LET s1 == [s EXCEPT !.timer_label = TimeLabel(s.remaining_time),
                             !.remaining_time = @ - 1]
         IN  {[after(s1, TickMs, "tick") EXCEPT !.timer_update_id = s1.nextId,
                                                !.outcome = "ok"]}

update_timer(s) ==
    IF s.remaining_time <= 0
    THEN end_test_programmatically([s EXCEPT !.timer_label = TimesUp])
    ELSE LET s1 == [s EXCEPT !.timer_label = TimeLabel(s.remaining_time),
                             !.remaining_time = @ - 1]
         IN  {[after(s1, TickMs, "tick") EXCEPT !.timer_update_id = s1.nextId,
                                                !.outcome = "ok"]}

(* start_test without the check for an empty text *)
start_test_unchecked(s) ==
    LET text == strip(s.text_display)
        s1 == [s EXCEPT !.test_ended = FALSE,
                        !.text_display = text,
                        !.text_state = "disabled",
                        !.input_text = <<>>,
                        !.input_state = "normal",
                        !.return_bound = TRUE,
                        !.start_time = now,
                        !.starts = @ + 1,
                        !.prompted = 0,
                        !.start_text = text,
                        !.scored_text = <<>>,
                        !.added = 0]
        s2 == after(s1, DeadlineMs, "deadline")
    IN  update_timer([s2 EXCEPT !.remaining_time = TestSeconds])

(* start_test without input_field_widget.delete(0, tk.END) *)
start_test_keeps_input(s) ==
    LET text == strip(s.text_display)
    IN  IF text = <<>>
        THEN {[s EXCEPT !.outcome = "NoTextLoaded"]}
        ELSE LET s1 == [s EXCEPT !.test_ended = FALSE,
                                 !.text_display = text,
                                 !.text_state = "disabled",
                                 !.input_state = "normal",
                                 !.return_bound = TRUE,
                                 !.start_time = now,
                                 !.starts = @ + 1,
                                 !.prompted = 0,
                                 !.start_text = text,
                                 !.scored_text = <<>>,
                                 !.added = 0]
                 s2 == after(s1, DeadlineMs, "deadline")
             IN  update_timer([s2 EXCEPT !.remaining_time = TestSeconds])

start_test(s) ==
    LET text == strip(s.text_display)
    IN  IF text = <<>>
        THEN {[s EXCEPT !.outcome = "NoTextLoaded"]}
        ELSE LET s1 == [s EXCEPT !.test_ended = FALSE,
                                 !.text_display = text,
                                 !.text_state = "disabled",
                                 !.input_text = <<>>,
                                 !.input_state = "normal",
                                 !.return_bound = TRUE,
                                 !.start_time = now,
                                 !.starts = @ + 1,
                                 !.prompted = 0,
                                 !.start_text = text,
                                 !.scored_text = <<>>,
                                 !.added = 0]
                 s2 == after(s1, DeadlineMs, "deadline")
             IN  update_timer([s2 EXCEPT !.remaining_time = TestSeconds])

---------------------------------------------------------------------------
(* TypingTestUI *)

NoText == <<>>
Paragraphs == {<<"a", " ", "b">>}
TypedTexts == {<<"a", " ", "a">>}

(* fetch_new_text with text_manager set: create_paragraph() returns a      *)
(* paragraph or None                                                       *)
fetch_new_text(s, new_text) ==
    IF new_text # NoText
    THEN [s EXCEPT !.text_display = new_text, !.outcome = "ok"]
    ELSE [s EXCEPT !.outcome = "error_shown"]

(* TextManager.create_paragraph, called for the k-th thread: a paragraph   *)
(* of generated sentences, each call a different one, or None             *)
Letters == <<"a", "b", "c", "d">>
Paragraph(k) == <<Letters[((k - 1) % Len(Letters)) + 1], ".">>
create_paragraph(k) == {Paragraph(k), NoText}

(* The translation service: the Spanish for a text *)
Spanish(c) ==
    CASE c = "a" -> "A"
      [] c = "b" -> "B"
      [] c = "c" -> "C"
      [] c = "d" -> "D"
      [] OTHER -> c

translate(text) == [i \in 1..Len(text) |-> Spanish(text[i])]

(* str.replace(".", ". ") *)
RECURSIVE replace_period(_)
replace_period(text) ==
    IF text = <<>>
    THEN <<>>
    ELSE (IF Head(text) = "." THEN <<".", " ">> ELSE <<Head(text)>>)
             \o replace_period(Tail(text))

(* TextManager.translate_paragraph: the translation, or None *)
translate_paragraph(paragraph) ==
    {replace_period(translate(paragraph)), NoText}

(* tk.Text.delete('1.0', END) and insert(END, chars): a Text widget whose  *)
(* state is disabled ignores both                                          *)
text_delete(s) ==
    IF s.text_state = "normal" THEN [s EXCEPT !.text_display = <<>>] ELSE s

text_insert(s, chars) ==
    IF s.text_state = "normal"
    THEN [s EXCEPT !.text_display = @ \o chars]
    ELSE s

(* threading.Thread(target=...).start() *)
Thread(target) ==
    [target |-> target, pc |-> "begin", current_text |-> <<>>, text |-> <<>>]

fetch_new_text_thread(s) ==
    [s EXCEPT !.threads = Append(@, Thread("fetch_new_text")),
              !.outcome = "ok"]

translate_text_thread(s) ==
    [s EXCEPT !.threads = Append(@, Thread("translate_text")),
              !.outcome = "ok"]

(* A call on a widget made by the thread that runs the target *)
in_thread(s) == [s EXCEPT !.mutated_by = "Thread", !.outcome = "ok"]

(* The next statement of fetch_new_text in thread i *)
fetch_new_text_step(s, i) ==
    LET t == s.threads[i]
        goto(s1, pc) == [s1 EXCEPT !.threads[i].pc = pc]
    IN  CASE t.pc = "begin" ->
               IF s.text_manager
               THEN {goto(in_thread([s EXCEPT !.status_label = "Loading text..."]),
                          "call")}
               ELSE {goto(s, "clear")}
          [] t.pc = "call" ->
               {goto([s EXCEPT !.threads[i].text = new_text],
                     IF new_text # NoText THEN "enable" ELSE "error") :
                   new_text \in create_paragraph(i)}
          [] t.pc = "enable" ->
               {goto(in_thread([s EXCEPT !.text_state = "normal"]), "delete")}
          [] t.pc = "delete" ->
               {goto(in_thread(text_delete(s)), "insert")}
          [] t.pc = "insert" ->
               {goto(in_thread(text_insert(s, t.text)), "disable")}
          [] t.pc = "disable" ->
               {goto(in_thread([s EXCEPT !.text_state = "disabled"]), "clear")}
          [] t.pc = "error" ->
               {goto([in_thread(s) EXCEPT !.outcome = "error_shown"], "clear")}
          [] t.pc = "clear" ->
               {goto(in_thread([s EXCEPT !.status_label = ""]), "done")}
          [] OTHER -> {}

(* The next statement of translate_text in thread i *)
translate_text_step(s, i) ==
    LET t == s.threads[i]
        goto(s1, pc) == [s1 EXCEPT !.threads[i].pc = pc]
    IN  CASE t.pc = "begin" ->
               IF s.text_manager
               THEN {goto(in_thread([s EXCEPT !.status_label =
                                                  "Translating new text..."]),
                          "get")}
               ELSE {goto(s, "clear")}
          [] t.pc = "get" ->
               {goto([s EXCEPT !.threads[i].current_text =
                                   strip(s.text_display)], "call")}
          [] t.pc = "call" ->
               {goto([s EXCEPT !.threads[i].text = translated_text],
                     IF translated_text # NoText THEN "enable" ELSE "error") :
                   translated_text \in translate_paragraph(t.current_text)}
          [] t.pc = "enable" ->
               {goto(in_thread([s EXCEPT !.text_state = "normal"]), "delete")}
          [] t.pc = "delete" ->
               {goto(in_thread(text_delete(s)), "insert")}
          [] t.pc = "insert" ->
               {goto(in_thread(text_insert(s, t.text)), "disable")}
          [] t.pc = "disable" ->
               {goto(in_thread([s EXCEPT !.text_state = "disabled"]), "clear")}
          [] t.pc = "error" ->
               {goto([in_thread(s) EXCEPT !.outcome = "error_shown"], "clear")}
          [] t.pc = "clear" ->
               {goto(in_thread([s EXCEPT !.status_label = ""]), "done")}
          [] OTHER -> {}

(* main() has reached mainloop() and no thread is running: the widgets as  *)
(* create_widgets built them                                               *)
MainLoopQuiet ==
    /\ text_manager = TRUE
    /\ main_pc = "mainloop"
    /\ threads = <<>>
    /\ status_label = ""
    /\ text_state = "disabled"
    /\ mutated_by = "MainThread"

---------------------------------------------------------------------------
(* The session: the user's actions, Tk's timers and the clock *)

Init ==
    /\ start_time = None
    /\ end_time = None
    /\ timer_update_id = None
    /\ test_ended = FALSE
    /\ remaining_time = TestSeconds
    /\ text_display = <<>>
    /\ input_text = <<>>
    /\ input_state = "disabled"
    /\ return_bound = FALSE
    /\ speed_label = <<>>
    /\ accuracy_label = <<>>
    /\ timer_label = TimeLabel(TestSeconds)
    /\ calculated_speed = <<>>
    /\ calculated_accuracy = <<>>
    /\ pending = {}
    /\ nextId = 1
    /\ now = 0
    /\ stored = FileMissing
    /\ high_scores = load_scores(stored)
    /\ outcome = "ok"
    /\ op = "init"
    /\ prompted = 0
    /\ added = 0
    /\ starts = 0
    /\ adds = 0
    /\ start_text = <<>>
    /\ scored_text = <<>>
    /\ MainLoopQuiet

Due(cb) == cb.due <= now

FetchNewText ==
    \E new_text \in Paragraphs \cup {NoText} :
        /\ Commit(fetch_new_text(Self, new_text))
        /\ op' = "fetch_new_text"
        /\ UNCHANGED now

(* The user types into the Entry: Tk's own handling of the keys *)
Type ==
    \E t \in TypedTexts :
        /\ input_state = "normal"
        /\ Commit([Self EXCEPT !.input_text = t, !.outcome = "ok"])
        /\ op' = "type"
        /\ UNCHANGED now

(* The Start button: trigger_start_test calls start_test.  The user        *)
(* presses it at most MaxStarts times, no later than MaxStartTime.         *)
PressStart ==
    /\ main_pc = "mainloop"
    /\ starts < MaxStarts
    /\ now <= MaxStartTime
    /\ \E s \in start_test(Self) : Commit(s)
    /\ op' = "start_test"
    /\ UNCHANGED now

(* <Return> in the Entry *)
PressEnter ==
    /\ main_pc = "mainloop"
    /\ return_bound
    /\ input_state = "normal"
    /\ \E s \in end_test(Self) : Commit(s)
    /\ op' = "end_test"
    /\ UNCHANGED now

(* after(60000, self.end_test_programmatically) comes due *)
FireDeadline ==
    \E cb \in pending :
        /\ cb.kind = "deadline"
        /\ Due(cb)
        /\ \E s \in end_test_programmatically([Self EXCEPT !.pending = @ \ {cb}]) :
               Commit(s)
        /\ op' = "deadline"
        /\ UNCHANGED now

(* after(1000, self.update_timer) comes due *)
FireTick ==
    \E cb \in pending :
        /\ cb.kind = "tick"
        /\ Due(cb)
        /\ \E s \in update_timer([Self EXCEPT !.pending = @ \ {cb}]) : Commit(s)
        /\ op' = "tick"
        /\ UNCHANGED now

(* Time passes once every callback that is due has run; the clock of the   *)
(* model stops when no callback is pending and no start can follow.        *)
Advance ==
    /\ now < MaxStartTime \/ pending # {}
    /\ \A cb \in pending : ~Due(cb)
    /\ now' = now + ClockStep
    /\ op' = "advance"
    /\ outcome' = "ok"
    /\ UNCHANGED <<start_time, end_time, timer_update_id, test_ended,
                   remaining_time, text_display, input_text, input_state,
                   return_bound, speed_label, accuracy_label, timer_label,
                   calculated_speed, calculated_accuracy, pending, nextId,
                   high_scores, stored, prompted, added, starts, adds,
                   text_manager, main_pc, threads, status_label, text_state,
                   mutated_by, start_text, scored_text>>

Next ==
    \/ FetchNewText
    \/ Type
    \/ PressStart
    \/ PressEnter
    \/ FireDeadline
    \/ FireTick
    \/ Advance

Spec == Init /\ [][Next]_vars

(* Tk runs every callback that is due, and time passes *)
FairSpec ==
    Spec /\ WF_vars(FireDeadline) /\ WF_vars(FireTick) /\ WF_vars(Advance)

(* The phases of a session, read off the fields *)
Idle == start_time = None /\ ~test_ended
Running == start_time # None /\ ~test_ended
Ended == test_ended

Deadlines(q) == {cb \in q : cb.kind = "deadline"}
Ticks(q) == {cb \in q : cb.kind = "tick"}

---------------------------------------------------------------------------
(* ScoreManager on its own: a file found at start-up, then add_score calls *)

Entry(name, n) ==
    [name |-> name, score |-> Rat(n, 1), accuracy |-> Rat(95, 1), date |-> 0]

Descending(n) == [i \in 1..n |-> Entry("Alice", 95 - 5 * i)]
Ascending(n) == [i \in 1..n |-> Entry("Bob", 60 + 5 * i)]

(* No file, a corrupt file, a file this program wrote, a file edited by    *)
(* hand (json.load returns whatever list it holds)                         *)
InitialFiles ==
    {FileMissing, FileCorrupt, FileUnreadable, JsonFile(Descending(TopN - 1)),
     JsonFile(Descending(TopN)), JsonFile(Ascending(TopN + 1))}

StoreScores == {Rat(70, 1), Rat(80, 1), Rat(90, 1)}
StoreAccuracies == {Rat(92, 1), Rat(95, 1)}

InitStore ==
    /\ start_time = None
    /\ end_time = None
    /\ timer_update_id = None
    /\ test_ended = FALSE
    /\ remaining_time = TestSeconds
    /\ text_display = <<>>
    /\ input_text = <<>>
    /\ input_state = "disabled"
    /\ return_bound = FALSE
    /\ speed_label = <<>>
    /\ accuracy_label = <<>>
    /\ timer_label = TimeLabel(TestSeconds)
    /\ calculated_speed = <<>>
    /\ calculated_accuracy = <<>>
    /\ pending = {}
    /\ nextId = 1
    /\ now = 0
    /\ stored \in InitialFiles
    /\ high_scores = load_scores(stored)
    /\ outcome = "ok"
    /\ op = "init"
    /\ prompted = 0
    /\ added = 0
    /\ starts = 0
    /\ adds = 0
    /\ start_text = <<>>
    /\ scored_text = <<>>
    /\ MainLoopQuiet

AddScore ==
    \E name \in Names, score \in StoreScores, accuracy \in StoreAccuracies,
       save_result \in SaveResults :
        /\ adds < MaxAdds
        /\ Commit(add_score(Self, name, score, accuracy, save_result))
        /\ op' = "add_score"
        /\ UNCHANGED now

(* The program is started again: ScoreManager.__init__ *)
LoadScores ==
    /\ LET r == try_load_scores(stored)
       IN  Commit([Self EXCEPT !.high_scores = r.ret,
                               !.outcome = IF r.raised = "none" THEN "ok"
                                           ELSE r.raised])
    /\ op' = "load_scores"
    /\ UNCHANGED now

NextStore ==
    \/ AddScore
    \/ LoadScores

SpecStore == InitStore /\ [][NextStore]_vars

---------------------------------------------------------------------------
(* The scoring functions on their own, on every text up to MaxLen *)

InitCalc ==
    /\ start_time \in {0, 1000}
    /\ end_time \in {0, 500, 2500, 61000}
    /\ timer_update_id = None
    /\ test_ended = FALSE
    /\ remaining_time = TestSeconds
    /\ text_display \in Texts
    /\ input_text \in Texts
    /\ input_state = "normal"
    /\ return_bound = FALSE
    /\ speed_label = <<>>
    /\ accuracy_label = <<>>
    /\ timer_label = TimeLabel(TestSeconds)
    /\ calculated_speed = <<>>
    /\ calculated_accuracy = <<>>
    /\ pending = {}
    /\ nextId = 1
    /\ now = 0
    /\ stored = FileMissing
    /\ high_scores = load_scores(stored)
    /\ outcome = "ok"
    /\ op = "init"
    /\ prompted = 0
    /\ added = 0
    /\ starts = 0
    /\ adds = 0
    /\ start_text = <<>>
    /\ scored_text = <<>>
    /\ MainLoopQuiet

CalculateSpeed ==
    /\ calculated_speed = <<>>
    /\ Commit([calculate_speed(Self, input_text) EXCEPT !.outcome = "ok"])
    /\ op' = "calculate_speed"
    /\ UNCHANGED now

CalculateAccuracy ==
    /\ calculated_accuracy = <<>>
    /\ Commit([calculate_accuracy(Self, input_text, text_display)
                  EXCEPT !.outcome = "ok"])
    /\ op' = "calculate_accuracy"
    /\ UNCHANGED now

NextCalc ==
    \/ CalculateSpeed
    \/ CalculateAccuracy

SpecCalc == InitCalc /\ [][NextCalc]_vars

---------------------------------------------------------------------------
(* The text threads: main() from the construction of TypingTestUI on, the  *)
(* New Text and Translate buttons, and the threads they start              *)

MaxClicks == 1
StartupThreads == 2

(* TypingTestUI.__init__ has returned: text_manager is None and the thread *)
(* it started has not run yet                                              *)
InitText ==
    /\ start_time = None
    /\ end_time = None
    /\ timer_update_id = None
    /\ test_ended = FALSE
    /\ remaining_time = TestSeconds
    /\ text_display = <<>>
    /\ input_text = <<>>
    /\ input_state = "disabled"
    /\ return_bound = FALSE
    /\ speed_label = <<>>
    /\ accuracy_label = <<>>
    /\ timer_label = TimeLabel(TestSeconds)
    /\ calculated_speed = <<>>
    /\ calculated_accuracy = <<>>
    /\ pending = {}
    /\ nextId = 1
    /\ now = 0
    /\ stored = FileMissing
    /\ high_scores = load_scores(stored)
    /\ outcome = "ok"
    /\ op = "init"
    /\ prompted = 0
    /\ added = 0
    /\ starts = 0
    /\ adds = 0
    /\ start_text = <<>>
    /\ scored_text = <<>>
    /\ text_manager = FALSE
    /\ main_pc = "set_manager"
    /\ threads = <<Thread("fetch_new_text")>>
    /\ status_label = ""
    /\ text_state = "disabled"
    /\ mutated_by = "MainThread"

(* main(): app.text_manager = text_manager *)
SetTextManager ==
    /\ main_pc = "set_manager"
    /\ Commit([Self EXCEPT !.text_manager = TRUE,
                           !.main_pc = "initialize",
                           !.outcome = "ok"])
    /\ op' = "set_text_manager"
    /\ UNCHANGED now

(* main(): app.initialize_typing_test(), then on to mainloop() *)
InitializeTypingTest ==
    /\ main_pc = "initialize"
    /\ Commit([fetch_new_text_thread(Self) EXCEPT !.main_pc = "mainloop"])
    /\ op' = "initialize_typing_test"
    /\ UNCHANGED now

(* The New Text button *)
ClickNewText ==
    /\ main_pc = "mainloop"
    /\ Len(threads) < StartupThreads + MaxClicks
    /\ Commit(fetch_new_text_thread(Self))
    /\ op' = "fetch_new_text_thread"
    /\ UNCHANGED now

(* The Translate button *)
ClickTranslate ==
    /\ main_pc = "mainloop"
    /\ Len(threads) < StartupThreads + MaxClicks
    /\ Commit(translate_text_thread(Self))
    /\ op' = "translate_text_thread"
    /\ UNCHANGED now

(* A thread that runs fetch_new_text executes its next statement *)
RunFetchNewText ==
    \E i \in 1..Len(threads) :
        /\ threads[i].target = "fetch_new_text"
        /\ \E s \in fetch_new_text_step(Self, i) : Commit(s)
        /\ op' = "fetch_new_text"
        /\ UNCHANGED now

(* A thread that runs translate_text executes its next statement *)
RunTranslateText ==
    \E i \in 1..Len(threads) :
        /\ threads[i].target = "translate_text"
        /\ \E s \in translate_text_step(Self, i) : Commit(s)
        /\ op' = "translate_text"
        /\ UNCHANGED now

NextText ==
    \/ SetTextManager
    \/ InitializeTypingTest
    \/ ClickNewText
    \/ ClickTranslate
    \/ RunFetchNewText
    \/ RunTranslateText
    \/ PressStart
    \/ PressEnter

SpecText == InitText /\ [][NextText]_vars

---------------------------------------------------------------------------
(* Claims *)

(* C1: once a Running phase has ended, whichever of Enter, the deadline    *)
(* and the tick expiry called end() first, the prompt logic of end() has   *)
(* run exactly once for it and at most one record was added.               *)
C1_ExactlyOnce ==
    Ended => (prompted = 1 /\ added <= 1)

(* C2: after every add_score the leaderboard has at most 10 records and is *)
(* sorted in descending order of score.                                    *)
C2_TopTenSorted ==
    op = "add_score" =>
        /\ Len(high_scores) <= 10
        /\ \A i, j \in 1..Len(high_scores) :
               i < j => RatLeq(high_scores[j].score, high_scores[i].score)

(* add(Alice, 80, 95) then add(Bob, 90, 92) on an empty leaderboard has    *)
(* given [Bob, Alice].                                                     *)
C2_Witness ==
    /\ op = "add_score"
    /\ adds = 2
    /\ Len(high_scores) = 2
    /\ high_scores[1].name = "Bob" /\ high_scores[1].score = Rat(90, 1)
    /\ high_scores[1].accuracy = Rat(92, 1)
    /\ high_scores[2].name = "Alice" /\ high_scores[2].score = Rat(80, 1)
    /\ high_scores[2].accuracy = Rat(95, 1)

C4_NoTextNoEffect ==
    [][(op' = "start_test" /\ strip(text_display) = <<>>) =>
          /\ outcome' = "NoTextLoaded"
          /\ UNCHANGED <<start_time, end_time, timer_update_id, test_ended,
                         remaining_time, text_display, input_text,
                         input_state, return_bound, timer_label, pending,
                         nextId, starts>>
          /\ (Idle => Idle')]_vars

(* start_test has just been refused for want of a text, in an Idle session *)
C4_Witness ==
    /\ op = "start_test"
    /\ outcome = "NoTextLoaded"
    /\ strip(text_display) = <<>>
    /\ Idle
    /\ pending = {}

(* C5: a start_test invoked while the session is Running is rejected: the  *)
(* phase, start time, countdown and typed input are unchanged and no       *)
(* further deadline or tick callback is armed.                             *)
C5_StartWhileRunningRejected ==
    [][(op' = "start_test" /\ Running) =>
          UNCHANGED <<test_ended, start_time, remaining_time, input_text,
                      pending>>]_vars

(* C6: every session that is Running eventually is Ended, when Tk runs the *)
(* callbacks that are due and time passes.                                 *)
C6_RunningEnds ==
    Running ~> Ended

(* A timer, not Enter, has just ended a Running session. *)
C6_Witness ==
    /\ op \in {"deadline", "tick"}
    /\ outcome = "TypeError"
    /\ Ended
    /\ end_time = now
    /\ now >= start_time + 60000

(* C7: every end() that ends a Running session gets as far as the name     *)
(* prompt and raises no error; when the prompt is declined no record is    *)
(* added and the session stays Ended.                                      *)
C7_PromptReachedNoError ==
    (op \in {"end_test", "deadline", "tick"} /\ Ended /\ end_time = now) =>
        (outcome # "TypeError" /\ prompted = 1)

(* The positions at which typed and original agree, and the words of a    *)
(* text, counted without the recursions of the model                       *)
AgreeingPositions(typed, original) ==
    {i \in 1..Min(Len(typed), Len(original)) : typed[i] = original[i]}

WordStarts(t) ==
    {i \in 1..Len(t) : t[i] # " " /\ (i = 1 \/ t[i - 1] = " ")}

(* C8: for a non-empty original, calculate_accuracy returns the number of  *)
(* positions below min(len(typed), len(original)) at which the two agree,  *)
(* divided by len(original), times 100; what is typed beyond               *)
(* len(original) does not change it, and it lies in 0..100.                *)
C8_AccuracyFormula ==
    (calculated_accuracy # <<>> /\ text_display # <<>>) =>
        LET r == calculated_accuracy[1]
            n == Cardinality(AgreeingPositions(input_text, text_display))
            cut == SubSeq(input_text, 1, Min(Len(input_text), Len(text_display)))
        IN  /\ r.den > 0
            /\ r.num * Len(text_display) = n * 100 * r.den
            /\ r = accuracy_of(cut, text_display)
            /\ 0 <= r.num /\ r.num <= 100 * r.den

(* More was typed than the original holds, and only part of it agrees. *)
C8_Witness ==
    /\ calculated_accuracy # <<>>
    /\ Len(input_text) > Len(text_display)
    /\ Len(text_display) >= 2
    /\ Cardinality(AgreeingPositions(input_text, text_display)) = 1
    /\ calculated_accuracy[1].num * 2 = 100 * calculated_accuracy[1].den

(* C9: calculate_accuracy(t, t) = 100 for a non-empty t,                   *)
(* calculate_accuracy("", t) = 0 for a non-empty t, and                    *)
(* calculate_accuracy(x, "") = 0 for every x.                              *)
C9_AccuracyBoundaries ==
    calculated_accuracy # <<>> =>
        LET r == calculated_accuracy[1]
        IN  /\ (input_text = text_display /\ text_display # <<>>) =>
                   (r.den > 0 /\ r.num = 100 * r.den)
            /\ (input_text = <<>> /\ text_display # <<>>) =>
                   (r.den > 0 /\ r.num = 0)
            /\ text_display = <<>> => (r.den > 0 /\ r.num = 0)

(* The original typed exactly, at full length. *)
C9_Witness ==
    /\ calculated_accuracy # <<>>
    /\ input_text = text_display
    /\ Len(text_display) = MaxLen
    /\ calculated_accuracy[1].num = 100 * calculated_accuracy[1].den

(* C10: calculate_speed never divides by zero: with e = end_time -         *)
(* start_time, the speed is wordCount * 60 when e is below one second and  *)
(* wordCount * 60 / e (e in seconds) otherwise, wordCount counting the     *)
(* words between whitespace.                                               *)
C10_SpeedFormula ==
    calculated_speed # <<>> =>
        LET r == calculated_speed[1]
            e == end_time - start_time
            words == Cardinality(WordStarts(input_text))
        IN  /\ r.den > 0
            /\ e < 1000 => r.num = words * 60 * r.den
            /\ e >= 1000 => r.num * e = words * 60 * 1000 * r.den

(* Two words typed with end_time = start_time: 120 words a minute. *)
C10_Witness ==
    /\ calculated_speed # <<>>
    /\ end_time = start_time
    /\ Cardinality(WordStarts(input_text)) = 2
    /\ calculated_speed[1].num = 120 * calculated_speed[1].den

---------------------------------------------------------------------------
(* Leaderboards compared record by record, without the sort of the model *)

Range(seq) == {seq[i] : i \in 1..Len(seq)}
Count(seq, x) == Cardinality({i \in 1..Len(seq) : seq[i] = x})

(* The records add_score can be handed here *)
NewRecords ==
    [name : Names, score : StoreScores, accuracy : StoreAccuracies, date : {0}]

(* new holds the highest-scoring records of all, each as it was: nothing   *)
(* invented or altered, nothing kept twice, and whatever was left out      *)
(* scores no higher than anything kept.                                    *)
KeepsHighest(new, all) ==
    /\ Len(new) = Min(Len(all), 10)
    /\ \A x \in Range(new) : Count(new, x) <= Count(all, x)
    /\ \A x \in Range(all) :
           Count(new, x) < Count(all, x) =>
               \A i \in 1..Len(new) : RatLeq(x.score, new[i].score)

(* C11: load_scores never raises: on a missing, unreadable or corrupt file *)
(* it returns the empty leaderboard, otherwise the stored one.             *)
C11_LoadNeverRaises ==
    op = "load_scores" =>
        /\ outcome = "ok"
        /\ stored.kind = "json" => high_scores = stored.data
        /\ stored.kind # "json" => high_scores = <<>>

(* A leaderboard held in memory was lost to a file cut short by a failed   *)
(* write: the next start-up loads the empty leaderboard.                   *)
C11_Witness ==
    /\ op = "load_scores"
    /\ outcome = "ok"
    /\ stored = FileCorrupt
    /\ adds > 0
    /\ high_scores = <<>>

(* C12: add_score does not raise when the write fails; whatever the write  *)
(* did, the leaderboard in memory is the one before the call with the new  *)
(* record put in (or left out only because ten records score at least as   *)
(* much), and the next add_score works on that leaderboard.                *)
C12_WriteFailureNotFatal ==
    [][op' = "add_score" =>
          /\ outcome' \in {"ok", "save_failed"}
          /\ outcome' = "ok" => stored' = JsonFile(high_scores')
          /\ Len(high_scores') = Min(Len(high_scores) + 1, 10)
          /\ \E r \in NewRecords :
                /\ Range(high_scores') \subseteq Range(high_scores) \cup {r}
                /\ \/ r \in Range(high_scores')
                   \/ /\ Len(high_scores) >= 10
                      /\ \A i \in 1..Len(high_scores') :
                             RatLeq(r.score, high_scores'[i].score)]_vars

(* Two writes have failed in a row and both records are in memory. *)
C12_Witness ==
    /\ op = "add_score"
    /\ outcome = "save_failed"
    /\ adds = 2
    /\ stored = FileCorrupt
    /\ Len(high_scores) = 2

---------------------------------------------------------------------------
(* The step just taken called end(): from Enter, from the deadline, or     *)
(* from a tick that found no time left                                     *)
EndCalled ==
    \/ op' \in {"end_test", "deadline"}
    \/ op' = "tick" /\ remaining_time <= 0

(* end() has just ended a Running session *)
JustEnded ==
    /\ \/ op \in {"end_test", "deadline"}
       \/ op = "tick" /\ timer_label = TimesUp
    /\ outcome # "noop"
    /\ Ended
    /\ end_time = now

(* C14: end() on a session that is already Ended changes nothing: not the  *)
(* end time, the countdown, the typed input, the leaderboard or the        *)
(* callbacks others have pending, and it does not prompt again.            *)
C14_EndWhenEndedNoOp ==
    [][(Ended /\ EndCalled) =>
          /\ outcome' = "noop"
          /\ UNCHANGED <<test_ended, start_time, end_time, remaining_time,
                         timer_update_id, text_display, input_text,
                         input_state, return_bound, speed_label,
                         accuracy_label, calculated_speed,
                         calculated_accuracy, nextId, high_scores, stored,
                         prompted, added, starts, adds, start_text,
                         scored_text>>
          /\ pending' \subseteq pending
          /\ Cardinality(pending \ pending')
                 = IF op' = "end_test" THEN 0 ELSE 1]_vars

(* Enter pressed again, later, on a session that has ended: the end time   *)
(* is still the earlier one.                                               *)
C14_Witness ==
    /\ op = "end_test"
    /\ outcome = "noop"
    /\ Ended
    /\ end_time < now
    /\ input_text # <<>>
    /\ pending # {}

(* C15, as claimed: a tick while Running takes 1 from remaining_time; the  *)
(* tick that brings it to 0 calls end() and queues no tick, every other    *)
(* tick queues exactly one.                                                *)
C15_Original ==
    [][(op' = "tick" /\ Running) =>
          /\ remaining_time' = remaining_time - 1
          /\ remaining_time' = 0 =>
                 (Ended' /\ Ticks(pending') \subseteq Ticks(pending))
          /\ remaining_time' # 0 =>
                 Cardinality(Ticks(pending') \ Ticks(pending)) = 1]_vars

(* C15, amended: a tick that finds remaining_time above 0 takes exactly 1  *)
(* from it and queues exactly one tick for the next second, also when that *)
(* brings it to 0, and does not end the session; the tick that finds       *)
(* remaining_time = 0 leaves it at 0, calls end() and queues no tick.      *)
C15_TickEffect ==
    [][op' = "tick" =>
          IF remaining_time > 0
          THEN /\ remaining_time' = remaining_time - 1
               /\ test_ended' = test_ended
               /\ \E fired \in Ticks(pending), t \in Ticks(pending') :
                     /\ pending' = (pending \ {fired}) \cup {t}
                     /\ t \notin pending
                     /\ t.due = now + 1000
                     /\ timer_update_id' = t.id
          ELSE /\ remaining_time' = 0
               /\ Ended'
               /\ timer_label' = TimesUp
               /\ \E fired \in Ticks(pending) : pending' = pending \ {fired}]_vars

(* The tick that found no time left has ended a session that no deadline   *)
(* and no Enter had ended.                                                 *)
C15_Witness ==
    /\ op = "tick"
    /\ JustEnded
    /\ remaining_time = 0
    /\ timer_label = TimesUp

(* C16: once end() has ended a Running session and the name prompt was not *)
(* declined, no tick callback is pending and remaining_time is 60.         *)
C16_TickCancelled ==
    (JustEnded /\ ~(prompted = 1 /\ added = 0)) =>
        (Ticks(pending) = {} /\ remaining_time = 60)

(* C17: remaining_time is an integer from 0 to 60 in every state. *)
C17_RemainingInRange ==
    remaining_time \in 0..60

(* After a second start, a tick has fired on a session that had ended and  *)
(* found no time left.                                                     *)
C17_Witness ==
    /\ op = "tick"
    /\ outcome = "noop"
    /\ Ended
    /\ starts = 2
    /\ remaining_time = 0

(* C19: at most one tick callback is pending at any time. *)
C19_OneTickPending ==
    Cardinality(Ticks(pending)) <= 1

(* C20: a deadline or a tick ends a Running session only once 60 seconds   *)
(* have passed since that session's start.                                 *)
C20_NoEarlyTimerEnd ==
    (JustEnded /\ op \in {"deadline", "tick"}) => now - start_time >= 60000

(* C13: every call that changes the text display, the status label or an   *)
(* error window is made by the main thread, never by a thread started for  *)
(* fetch_new_text or translate_text.                                       *)
C13_WidgetsOnMainThread ==
    mutated_by = "MainThread"

(* Every thread started has run to its end, and at least one of them got   *)
(* a text to show                                                          *)
AllThreadsDone ==
    /\ main_pc = "mainloop"
    /\ \A i \in 1..Len(threads) : threads[i].pc = "done"
    /\ \E i \in 1..Len(threads) : threads[i].text # NoText

(* Thread i, which runs translate_text, clears the display in this step    *)
(* while the display holds the paragraph of a fetch that is not the text   *)
(* the thread translated                                                   *)
TranslateOverwritesNewer(i) ==
    /\ threads[i].target = "translate_text"
    /\ threads[i].pc = "delete"
    /\ threads'[i].pc = "insert"
    /\ text_state = "normal"
    /\ \E j \in 1..Len(threads) :
          /\ threads[j].target = "fetch_new_text"
          /\ threads[j].text # NoText
          /\ text_display = threads[j].text
          /\ strip(text_display) # threads[i].current_text

(* C22: once all the overlapping fetch and translate threads have          *)
(* finished, the text display holds exactly the text one of them got,      *)
(* never two texts joined or mixed; and a translate never replaces a       *)
(* paragraph fetched after it read the display by the translation of the   *)
(* older one.                                                              *)
C22_OneResultShown ==
    [][/\ AllThreadsDone' =>
              \E i \in 1..Len(threads') : text_display' = threads'[i].text
       /\ \A i \in 1..Len(threads) : ~TranslateOverwritesNewer(i)]_vars

(* C21: the original text end() scores a session against is the text that  *)
(* was displayed when start_test started that session, whatever a New Text *)
(* or Translate thread showed while the session was Running.               *)
C21_ScoredAgainstStartText ==
    scored_text # <<>> => scored_text[1] = start_text

=============================================================================
